---- MODULE Spec2Model ----
(***************************************************************************)
(* Model of the value-hierarchy CLI (src/src/index.ts, lines 1-570).       *)
(*                                                                         *)
(* The program is a set of commands, each one process run: it validates    *)
(* the file argument, loads the records of the .values.csv file, works on  *)
(* the loaded array and, for the mutating commands, writes the array back. *)
(* The state is the file system (one hierarchy file per path), the wall    *)
(* clock, and what the last command was given and printed.                 *)
(*                                                                         *)
(* Strings the program inspects (titles, the --responses text) are         *)
(* sequences of one-character strings, so that split and trim are          *)
(* computed as JavaScript computes them.                                   *)
(***************************************************************************)
EXTENDS Integers, Sequences, FiniteSets, TLC

VARIABLES
    fs,       \* path -> [exists, rows]: the hierarchy files on disk
    clock,    \* the last tick a command read from the wall clock
    last,     \* the running command: its arguments, exit code, output, locals
    applied   \* history: per path, per row, the outcomes persisted for it

vars == <<fs, clock, last, applied>>

----------------------------------------------------------------------------
(* Bounds of the model                                                     *)

MaxTime == 3          \* readings of the wall clock per behaviour
MaxRecords == 2       \* rows a file of Spec holds at most
MaxScoreRecords == 3  \* rows of the files update-scores is run on alone
MaxBatch == 3         \* comma-separated tokens in one --responses text
MaxNum == 2           \* largest --num given to pairs
MaxSelRecords == 4    \* rows of the files pairs is run on alone
MaxGap == 3           \* how far above CoveredCount a count of SpecPairs lies
MaxRoundRecords == 3  \* rows of the files SpecRounds starts from
MaxViewRecords == 11  \* rows of the files SpecViews starts from
TicksPerSecond == 2   \* clock ticks that share one second of generateId

(* Constants of the program                                                *)

InitialScore == 1500  \* score of a new value
Delta == 10           \* fixed score adjustment of one outcome
CoveredCount == 3     \* minCount from which pairs uses every record

----------------------------------------------------------------------------
(* Strings                                                                 *)

Min(a, b) == IF a < b THEN a ELSE b

Space == " "

\* The value of a missing array element or option (JavaScript undefined).
Undefined == <<"undefined">>

\* JavaScript truthiness of a string-or-undefined value.
Truthy(s) == s # Undefined /\ s # <<>>

RECURSIVE TrimStart(_)
TrimStart(s) ==
    IF s # <<>> /\ Head(s) = Space THEN TrimStart(Tail(s)) ELSE s

RECURSIVE TrimEnd(_)
TrimEnd(s) ==
    IF s # <<>> /\ s[Len(s)] = Space THEN TrimEnd(SubSeq(s, 1, Len(s) - 1)) ELSE s

\* String.prototype.trim
Trim(s) == TrimEnd(TrimStart(s))

\* Index of the first occurrence of character c in s, 0 when there is none.
RECURSIVE IndexOfFrom(_, _, _)
IndexOfFrom(s, c, i) ==
    IF i > Len(s) THEN 0
    ELSE IF s[i] = c THEN i
    ELSE IndexOfFrom(s, c, i + 1)

\* String.prototype.split on a one-character separator: always at least one
\* segment, empty segments kept.
RECURSIVE Split(_, _)
Split(s, c) ==
    LET k == IndexOfFrom(s, c, 1)
    IN  IF k = 0 THEN <<s>>
        ELSE <<SubSeq(s, 1, k - 1)>> \o Split(SubSeq(s, k + 1, Len(s)), c)

\* Array destructuring: the k-th element, or undefined.
Nth(a, k) == IF k <= Len(a) THEN a[k] ELSE Undefined

\* Array.prototype.join
RECURSIVE Join(_, _)
Join(a, c) ==
    IF a = <<>> THEN <<>>
    ELSE IF Len(a) = 1 THEN a[1]
    ELSE a[1] \o <<c>> \o Join(Tail(a), c)

Lower(c) ==
    CASE c = "A" -> "a"
      [] c = "B" -> "b"
      [] c = "C" -> "c"
      [] c = "D" -> "d"
      [] c = "E" -> "e"
      [] c = "F" -> "f"
      [] c = "Z" -> "z"
      [] OTHER -> c

\* slugify(title, {lower: true, strict: true}) on the model's alphabet:
\* trimmed, inner spaces to dashes, lower case.
Slug(t) ==
    LET u == Trim(t)
    IN  [i \in 1..Len(u) |-> IF u[i] = Space THEN "-" ELSE Lower(u[i])]

----------------------------------------------------------------------------
(* Paths and files                                                         *)

\* A path is its dot-separated components.
GoodPath == <<"personal", "values", "csv">>
BadPath == <<"personal", "csv">>
Paths == {GoodPath, BadPath}

\* filePath.endsWith('.values.csv')
EndsWithValuesCsv(p) ==
    Len(p) >= 3 /\ p[Len(p) - 1] = "values" /\ p[Len(p)] = "csv"

NoFile == [exists |-> FALSE, rows |-> <<>>]

\* readValues: the rows of the file, none when the file does not exist.
readValues(p) == IF fs[p].exists THEN fs[p].rows ELSE <<>>

\* writeValues: the file is replaced by the header and the given rows.
writeValues(p, values) == [fs EXCEPT ![p] = [exists |-> TRUE, rows |-> values]]

\* The seconds stamp generateId reads from the clock.
Seconds(t) == t \div TicksPerSecond

generateId(title, t) == [ts |-> Seconds(t), slug |-> Slug(title)]

\* values.find(v => v.title === t): index of the first match, 0 when none.
RECURSIVE FindTitleFrom(_, _, _)
FindTitleFrom(values, t, i) ==
    IF i > Len(values) THEN 0
    ELSE IF values[i].title = t THEN i
    ELSE FindTitleFrom(values, t, i + 1)

\* A variant of the lookup that trims the stored titles too.
FindTitleTrimmed(values, t) ==
    LET trimmed == [i \in 1..Len(values) |-> [title |-> Trim(values[i].title)]]
    IN  FindTitleFrom(trimmed, t, 1)

FindTitle(values, t) == FindTitleFrom(values, t, 1)

\* values.findIndex(v => v.id === id): index of the first match, 0 when none.
RECURSIVE FindIdFrom(_, _, _)
FindIdFrom(values, id, i) ==
    IF i > Len(values) THEN 0
    ELSE IF values[i].id = id THEN i
    ELSE FindIdFrom(values, id, i + 1)

FindId(values, id) == FindIdFrom(values, id, 1)

\* new Date(): the handler reads the wall clock, later than any earlier reading.
ReadClock == clock < MaxTime /\ clock' = clock + 1

\* The record of one command run: what it was given, its exit code, what it
\* printed, its locals when it ended, and the files as they were before it.
Ran(cmd, path, args, exit, out, locals) ==
    [cmd |-> cmd, path |-> path, args |-> args, exit |-> exit,
     out |-> out, locals |-> locals, before |-> fs]

NoLocals == [none |-> TRUE]

\* A variant of the rejection that has opened the file for writing before
\* it exits.
BadFileTouches(cmd, path, args) ==
    /\ ~EndsWithValuesCsv(path)
    /\ last' = Ran(cmd, path, args, 1, <<"Error: --file must end with .values.csv">>, NoLocals)
    /\ fs' = writeValues(path, <<>>)
    /\ UNCHANGED <<applied, clock>>

\* validateFile rejected the path: the process exits before any read or write.
BadFile(cmd, path, args) ==
    /\ ~EndsWithValuesCsv(path)
    /\ last' = Ran(cmd, path, args, 1, <<"Error: --file must end with .values.csv">>, NoLocals)
    /\ UNCHANGED <<fs, applied, clock>>

----------------------------------------------------------------------------
(* Inputs the commands are given                                           *)

TitleA == <<"A">>
TitleB == <<"B">>
TitleZ == <<"Z">>

\* Titles given to add and to edit --title.
AddTitles == {TitleA, TitleB}

\* Titles that occur in --responses texts; no record is ever titled Z.
ArgTitles == {TitleA, TitleB, TitleZ}

TagInputs == {Undefined, <<"t">>}
DescInputs == {Undefined, <<"r">>}

\* The options given to edit: none, a title, empty tags, a rationale.
EditInputs ==
    {[title |-> Undefined, tags |-> Undefined, desc |-> Undefined],
     [title |-> TitleB, tags |-> Undefined, desc |-> Undefined],
     [title |-> Undefined, tags |-> <<>>, desc |-> Undefined],
     [title |-> Undefined, tags |-> Undefined, desc |-> <<"r">>]}

\* The token "W>L".
Outcome(w, l) == w \o <<">">> \o l

\* Tokens of --responses texts: two records compared either way, a record
\* compared with itself, an unknown loser, an unknown winner, and a token
\* with no separator.
Tokens ==
    {Outcome(TitleA, TitleB), Outcome(TitleB, TitleA), Outcome(TitleA, TitleA),
     Outcome(TitleA, TitleZ), Outcome(TitleZ, TitleA), TitleA}

RECURSIVE SeqsUpTo(_, _)
SeqsUpTo(S, n) ==
    IF n = 0 THEN {<<>>}
    ELSE LET shorter == SeqsUpTo(S, n - 1)
         IN  shorter \cup {Append(q, x) : q \in shorter, x \in S}

\* Tokens that are no outcome: no separator, nothing before it, nothing
\* after it, nothing at all.
MalformedTokens == {TitleA, <<">">> \o TitleA, TitleA \o <<">">>, <<>>}

\* Batches that end in a token that is no outcome, after outcomes that are.
MalformedBatches ==
    {Join(Append(b, m), ",") :
        b \in SeqsUpTo({Outcome(TitleA, TitleB)}, MaxBatch - 1), m \in MalformedTokens}

\* A token of three segments, and a token with blanks around its titles.
LongToken == Outcome(Outcome(TitleA, TitleB), TitleZ)
SpacedToken == Outcome(<<Space>> \o TitleA \o <<Space>>, <<Space>> \o TitleB \o <<Space>>)

\* Batches of such tokens, alone and before an outcome.
ParsedBatches ==
    {LongToken, SpacedToken,
     Join(<<LongToken, Outcome(TitleB, TitleA)>>, ","),
     Join(<<SpacedToken, Outcome(TitleA, TitleB)>>, ",")}

\* The --responses option: absent, or one to MaxBatch tokens joined by commas.
ResponseInputs ==
    {Undefined} \cup {Join(b, ",") : b \in SeqsUpTo(Tokens, MaxBatch) \ {<<>>}}
        \cup MalformedBatches \cup ParsedBatches

\* The --responses texts given between the other commands: absent, each
\* token alone, and one batch of two outcomes.
ShortResponses ==
    {Undefined} \cup Tokens
        \cup {Join(<<Outcome(TitleA, TitleB), Outcome(TitleB, TitleA)>>, ",")}

\* An id no add ever generates.
UnknownId == [ts |-> 0, slug |-> <<"z">>]

IdsOf(values) == {values[i].id : i \in 1..Len(values)}

----------------------------------------------------------------------------
(* init <file>                                                             *)

\* A variant of init that refuses a path at which a file exists.
InitActionKeepsExisting(path) ==
    LET args == [none |-> TRUE]
    IN  \/ BadFile("init", path, args)
        \/ /\ EndsWithValuesCsv(path)
           /\ fs[path].exists
           /\ last' = Ran("init", path, args, 1, <<"Error: file exists">>, NoLocals)
           /\ UNCHANGED <<fs, applied, clock>>
        \/ /\ EndsWithValuesCsv(path)
           /\ ~fs[path].exists
           /\ UNCHANGED clock
           /\ fs' = writeValues(path, <<>>)
           /\ applied' = [applied EXCEPT ![path] = <<>>]
           /\ last' = Ran("init", path, args, 0, <<"Created">>, NoLocals)

InitAction(path) ==
    LET args == [none |-> TRUE]
    IN  \/ BadFile("init", path, args)
        \/ /\ EndsWithValuesCsv(path)
           /\ UNCHANGED clock
           /\ fs' = writeValues(path, <<>>)
           /\ applied' = [applied EXCEPT ![path] = <<>>]
           /\ last' = Ran("init", path, args, 0, <<"Created">>, NoLocals)

(* add <file> <title> [--tags] [--desc]                                    *)

NewValue(title, tags, desc, now) ==
    [id |-> generateId(title, now),
     title |-> title,
     score |-> InitialScore,
     comparisonCount |-> 0,
     tags |-> IF Truthy(tags) THEN tags ELSE <<>>,
     createdAt |-> now,
     updatedAt |-> now,
     rationale |-> IF Truthy(desc) THEN desc ELSE <<>>]

\* A variant of add that puts the new record in front of the others.
AddActionPrepends(path, title, tags, desc) ==
    LET args == [title |-> title, tags |-> tags, desc |-> desc]
        now == clock + 1
        values == readValues(path)
    IN  \/ BadFile("add", path, args)
        \/ /\ EndsWithValuesCsv(path)
           /\ Len(values) < MaxRecords
           /\ ReadClock
           /\ fs' = writeValues(path, <<NewValue(title, tags, desc, now)>> \o values)
           /\ applied' = [applied EXCEPT ![path] = <<0>> \o @]
           /\ last' = Ran("add", path, args, 0, <<"Added", title>>, NoLocals)

AddAction(path, title, tags, desc) ==
    LET args == [title |-> title, tags |-> tags, desc |-> desc]
        now == clock + 1
        values == readValues(path)
    IN  \/ BadFile("add", path, args)
        \/ /\ EndsWithValuesCsv(path)
           /\ Len(values) < MaxRecords
           /\ ReadClock
           /\ fs' = writeValues(path, Append(values, NewValue(title, tags, desc, now)))
           /\ applied' = [applied EXCEPT ![path] = Append(@, 0)]
           /\ last' = Ran("add", path, args, 0, <<"Added", title>>, NoLocals)

(* edit <file> <id> [--title] [--tags] [--desc]                            *)

\* A variant of the edit that starts the record's rating over.
EditedResetsRating(value, title, tags, desc, now) ==
    [value EXCEPT
        !.title = IF Truthy(title) THEN title ELSE @,
        !.tags = IF tags # Undefined THEN tags ELSE @,
        !.rationale = IF Truthy(desc) THEN desc ELSE @,
        !.score = InitialScore,
        !.comparisonCount = 0,
        !.updatedAt = now]

Edited(value, title, tags, desc, now) ==
    [value EXCEPT
        !.title = IF Truthy(title) THEN title ELSE @,
        !.tags = IF tags # Undefined THEN tags ELSE @,
        !.rationale = IF Truthy(desc) THEN desc ELSE @,
        !.updatedAt = now]

EditAction(path, id, title, tags, desc) ==
    LET args == [id |-> id, title |-> title, tags |-> tags, desc |-> desc]
        now == clock + 1
        values == readValues(path)
        i == FindId(values, id)
    IN  \/ BadFile("edit", path, args)
        \/ /\ EndsWithValuesCsv(path)
           /\ i = 0
           /\ last' = Ran("edit", path, args, 1, <<"Error: not found", id>>, NoLocals)
           /\ UNCHANGED <<fs, applied, clock>>
        \/ /\ EndsWithValuesCsv(path)
           /\ i # 0
           /\ ReadClock
           /\ fs' = writeValues(path,
                     [values EXCEPT ![i] = Edited(@, title, tags, desc, now)])
           /\ last' = Ran("edit", path, args, 0, <<"Edited", id>>, NoLocals)
           /\ UNCHANGED applied

(* rationale <file> <id> [--update]                                        *)

RationaleAction(path, id, update) ==
    LET args == [id |-> id, update |-> update]
        now == clock + 1
        values == readValues(path)
        i == FindId(values, id)
    IN  \/ BadFile("rationale", path, args)
        \/ /\ EndsWithValuesCsv(path)
           /\ i = 0
           /\ last' = Ran("rationale", path, args, 1, <<"Error: not found", id>>, NoLocals)
           /\ UNCHANGED <<fs, applied, clock>>
        \/ /\ EndsWithValuesCsv(path)
           /\ i # 0
           /\ Truthy(update)
           /\ ReadClock
           /\ fs' = writeValues(path,
                     [values EXCEPT ![i].rationale = update, ![i].updatedAt = now])
           /\ last' = Ran("rationale", path, args, 0,
                          <<"Updated rationale", values[i].title>>, NoLocals)
           /\ UNCHANGED applied
        \/ /\ EndsWithValuesCsv(path)
           /\ i # 0
           /\ ~Truthy(update)
           /\ last' = Ran("rationale", path, args, 0,
                          <<"Rationale", values[i].title, values[i].rationale>>, NoLocals)
           /\ UNCHANGED <<fs, applied, clock>>

(* remove <file> <id>                                                      *)

\* values.splice(i, 1)
Splice(a, i) == SubSeq(a, 1, i - 1) \o SubSeq(a, i + 1, Len(a))

RemoveAction(path, id) ==
    LET args == [id |-> id]
        values == readValues(path)
        i == FindId(values, id)
    IN  \/ BadFile("remove", path, args)
        \/ /\ EndsWithValuesCsv(path)
           /\ i = 0
           /\ last' = Ran("remove", path, args, 1, <<"Error: not found", id>>, NoLocals)
           /\ UNCHANGED <<fs, applied, clock>>
        \/ /\ EndsWithValuesCsv(path)
           /\ i # 0
           /\ fs' = writeValues(path, Splice(values, i))
           /\ applied' = [applied EXCEPT ![path] = Splice(@, i)]
           /\ last' = Ran("remove", path, args, 0, <<"Removed", id>>, NoLocals)
           /\ UNCHANGED clock

----------------------------------------------------------------------------
(* update-scores <file> --responses                                        *)

\* A variant of the outcome that also stamps the winner's createdAt.
ApplyOutcomeRestampsCreation(values, w, l, now) ==
    LET v1 == [values EXCEPT ![w].score = @ + Delta]
        v2 == [v1 EXCEPT ![l].score = @ - Delta]
        v3 == [v2 EXCEPT ![w].comparisonCount = @ + 1]
        v4 == [v3 EXCEPT ![l].comparisonCount = @ + 1]
        v5 == [v4 EXCEPT ![w].updatedAt = now, ![w].createdAt = now]
    IN  [v5 EXCEPT ![l].updatedAt = now]

\* A variant of the outcome whose adjustment grows with the loser's lead
\* over the winner, as an Elo update's does.
ApplyOutcomeScaled(values, w, l, now) ==
    LET gain == Delta + (values[l].score - values[w].score) \div Delta
        v1 == [values EXCEPT ![w].score = @ + gain]
        v2 == [v1 EXCEPT ![l].score = @ - gain]
        v3 == [v2 EXCEPT ![w].comparisonCount = @ + 1]
        v4 == [v3 EXCEPT ![l].comparisonCount = @ + 1]
        v5 == [v4 EXCEPT ![w].updatedAt = now]
    IN  [v5 EXCEPT ![l].updatedAt = now]

\* A variant of the outcome that leaves the loser's score as it is.
ApplyOutcomeWinnerOnly(values, w, l, now) ==
    LET v1 == [values EXCEPT ![w].score = @ + Delta]
        v3 == [v1 EXCEPT ![w].comparisonCount = @ + 1]
        v4 == [v3 EXCEPT ![l].comparisonCount = @ + 1]
        v5 == [v4 EXCEPT ![w].updatedAt = now]
    IN  [v5 EXCEPT ![l].updatedAt = now]

\* The body of the forEach callback past its two checks: the six assignments,
\* in order, on the winner and loser objects (which may be one object).
ApplyOutcome(values, w, l, now) ==
    LET v1 == [values EXCEPT ![w].score = @ + Delta]
        v2 == [v1 EXCEPT ![l].score = @ - Delta]
        v3 == [v2 EXCEPT ![w].comparisonCount = @ + 1]
        v4 == [v3 EXCEPT ![l].comparisonCount = @ + 1]
        v5 == [v4 EXCEPT ![w].updatedAt = now]
    IN  [v5 EXCEPT ![l].updatedAt = now]

\* responses.forEach(...): the tokens from the k-th on, applied to the loaded
\* array. process.exit(1) inside the callback ends the run at once.
RECURSIVE ApplyResponses(_, _, _, _)
ApplyResponses(values, responses, k, now) ==
    IF k > Len(responses) THEN [exit |-> 0, values |-> values, err |-> <<>>]
    ELSE
        LET resp == responses[k]
            parts == Split(resp, ">")
            winner == Nth(parts, 1)
            loser == Nth(parts, 2)
        IN  IF ~Truthy(winner) \/ ~Truthy(loser)
            THEN [exit |-> 1, values |-> values,
                  err |-> <<"Invalid response format", resp>>]
            ELSE
                LET w == FindTitle(values, Trim(winner))
                    l == FindTitle(values, Trim(loser))
                IN  IF w = 0 \/ l = 0
                    THEN [exit |-> 1, values |-> values,
                          err |-> <<"Value not found", winner, loser>>]
                    ELSE ApplyResponses(ApplyOutcome(values, w, l, now),
                                        responses, k + 1, now)

\* History: the rows' counts of persisted outcomes after a successful batch;
\* an outcome counts once for each row it names.
RECURSIVE CountOutcomes(_, _, _, _)
CountOutcomes(hist, values, responses, k) ==
    IF k > Len(responses) THEN hist
    ELSE
        LET parts == Split(responses[k], ">")
            w == FindTitle(values, Trim(parts[1]))
            l == FindTitle(values, Trim(parts[2]))
        IN  CountOutcomes([i \in 1..Len(hist) |->
                              IF i = w \/ i = l THEN hist[i] + 1 ELSE hist[i]],
                          values, responses, k + 1)

\* A variant of update-scores that saves what it has applied before it exits
\* on a title it cannot find.
UpdateScoresPartialWrite(path, text) ==
    LET args == [responses |-> text]
        now == clock + 1
        values == readValues(path)
    IN  \/ BadFile("update-scores", path, args)
        \/ /\ EndsWithValuesCsv(path)
           /\ ~Truthy(text)
           /\ last' = Ran("update-scores", path, args, 1,
                          <<"Error: --responses is required.">>, NoLocals)
           /\ UNCHANGED <<fs, applied, clock>>
        \/ /\ EndsWithValuesCsv(path)
           /\ Truthy(text)
           /\ ReadClock
           /\ \E responses \in {Split(text, ",")} :
              \E res \in {ApplyResponses(values, responses, 1, now)} :
                \/ /\ res.exit = 1
                   /\ fs' = writeValues(path, res.values)
                   /\ last' = Ran("update-scores", path, args, 1, res.err, NoLocals)
                   /\ UNCHANGED applied
                \/ /\ res.exit = 0
                   /\ fs' = writeValues(path, res.values)
                   /\ applied' = [applied EXCEPT
                                     ![path] = CountOutcomes(@, values, responses, 1)]
                   /\ last' = Ran("update-scores", path, args, 0,
                                  <<"Updated scores", Len(responses)>>, NoLocals)

\* A variant of update-scores that saves what it has applied before it exits
\* on a token that is no outcome.
UpdateScoresSavesOnBadFormat(path, text) ==
    LET args == [responses |-> text]
        now == clock + 1
        values == readValues(path)
    IN  \/ BadFile("update-scores", path, args)
        \/ /\ EndsWithValuesCsv(path)
           /\ ~Truthy(text)
           /\ last' = Ran("update-scores", path, args, 1,
                          <<"Error: --responses is required.">>, NoLocals)
           /\ UNCHANGED <<fs, applied, clock>>
        \/ /\ EndsWithValuesCsv(path)
           /\ Truthy(text)
           /\ ReadClock
           /\ \E responses \in {Split(text, ",")} :
              \E res \in {ApplyResponses(values, responses, 1, now)} :
                \/ /\ res.exit = 1
                   /\ fs' = IF res.err[1] = "Invalid response format"
                            THEN writeValues(path, res.values)
                            ELSE fs
                   /\ last' = Ran("update-scores", path, args, 1, res.err, NoLocals)
                   /\ UNCHANGED applied
                \/ /\ res.exit = 0
                   /\ fs' = writeValues(path, res.values)
                   /\ applied' = [applied EXCEPT
                                     ![path] = CountOutcomes(@, values, responses, 1)]
                   /\ last' = Ran("update-scores", path, args, 0,
                                  <<"Updated scores", Len(responses)>>, NoLocals)

\* process.exit inside the forEach callback ends the run before writeValues;
\* a batch that ran through is written back.
UpdateScoresAction(path, text) ==
    LET args == [responses |-> text]
        now == clock + 1
        values == readValues(path)
    IN  \/ BadFile("update-scores", path, args)
        \/ /\ EndsWithValuesCsv(path)
           /\ ~Truthy(text)
           /\ last' = Ran("update-scores", path, args, 1,
                          <<"Error: --responses is required.">>, NoLocals)
           /\ UNCHANGED <<fs, applied, clock>>
        \/ /\ EndsWithValuesCsv(path)
           /\ Truthy(text)
           /\ ReadClock
           /\ \E responses \in {Split(text, ",")} :
              \E res \in {ApplyResponses(values, responses, 1, now)} :
                \/ /\ res.exit = 1
                   /\ last' = Ran("update-scores", path, args, 1, res.err, NoLocals)
                   /\ UNCHANGED <<fs, applied>>
                \/ /\ res.exit = 0
                   /\ fs' = writeValues(path, res.values)
                   /\ applied' = [applied EXCEPT
                                     ![path] = CountOutcomes(@, values, responses, 1)]
                   /\ last' = Ran("update-scores", path, args, 0,
                                  <<"Updated scores", Len(responses)>>, NoLocals)

----------------------------------------------------------------------------
(* pairs <file> [--num N]                                                  *)
(*                                                                         *)
(* The handler's arrays hold references to the loaded record objects; a    *)
(* reference is the record's row number in the file.                       *)

\* values.sort((a, b) => a.comparisonCount - b.comparisonCount) on the first
\* k rows: the sort is stable, rows of equal count keep their file order.
RECURSIVE SortByCount(_, _)
SortByCount(values, k) ==
    IF k = 0 THEN <<>>
    ELSE
        LET prev == SortByCount(values, k - 1)
            c == values[k].comparisonCount
        IN  SelectSeq(prev, LAMBDA r : values[r].comparisonCount <= c)
            \o <<k>>
            \o SelectSeq(prev, LAMBDA r : values[r].comparisonCount > c)

\* A variant of the choice with no bias: every record is a candidate.
CandidatesUnbiased(values, sorted, num) == sorted

\* A variant of the choice that never extends the least-compared cohort.
CandidatesCohortOnly(values, sorted, num) ==
    LET minCount == values[sorted[1]].comparisonCount
    IN  IF minCount >= CoveredCount THEN sorted
        ELSE SelectSeq(sorted, LAMBDA r : values[r].comparisonCount = minCount)

\* A variant of the choice that keeps its bias whatever the least count is.
CandidatesAlwaysBiased(values, sorted, num) ==
    LET minCount == values[sorted[1]].comparisonCount
        cohort == SelectSeq(sorted, LAMBDA r : values[r].comparisonCount = minCount)
    IN  IF Len(cohort) < num * 2
        THEN SubSeq(sorted, 1, Min(Len(sorted), num * 2))
        ELSE cohort

\* A variant of the choice that extends the cohort to num records, not to
\* num * 2.
CandidatesNumOnly(values, sorted, num) ==
    LET minCount == values[sorted[1]].comparisonCount
        cohort == SelectSeq(sorted, LAMBDA r : values[r].comparisonCount = minCount)
    IN  IF minCount >= CoveredCount THEN sorted
        ELSE IF Len(cohort) < num * 2
             THEN SubSeq(sorted, 1, Min(Len(sorted), num))
             ELSE cohort

\* The candidates chosen from the sorted references.
Candidates(values, sorted, num) ==
    LET minCount == values[sorted[1]].comparisonCount
        cohort == SelectSeq(sorted, LAMBDA r : values[r].comparisonCount = minCount)
    IN  IF minCount >= CoveredCount THEN sorted
        ELSE IF Len(cohort) < num * 2
             THEN SubSeq(sorted, 1, Min(Len(sorted), num * 2))
             ELSE cohort

\* A variant of the swap that copies c[j] to position i and leaves c[j].
SwapOverwrites(c, i, j) == [c EXCEPT ![i] = c[j]]

\* [c[i], c[j]] = [c[j], c[i]]
Swap(c, i, j) == [c EXCEPT ![i] = c[j], ![j] = c[i]]

\* The shuffle loop from position i down to 2 (JavaScript's i - 1 down to 1);
\* js[i] is the position Math.random picks for i, between 1 and i.
RECURSIVE Shuffle(_, _, _)
Shuffle(c, i, js) ==
    IF i < 2 THEN c ELSE Shuffle(Swap(c, i, js[i]), i - 1, js)

\* What Math.random can pick during one shuffle of n candidates.
RECURSIVE ShuffleChoices(_)
ShuffleChoices(n) ==
    IF n < 2 THEN {<<>>}
    ELSE {[i \in 2..n |-> IF i = n THEN j ELSE js[i]] :
             js \in ShuffleChoices(n - 1), j \in 1..n}

\* A variant of the pairing loop that stops after num candidates.
RECURSIVE PairLoopHalf(_, _, _, _)
PairLoopHalf(c, num, i, pairs) ==
    IF i < Min(num, Len(c) - 1)
    THEN PairLoopHalf(c, num, i + 2, Append(pairs, <<c[i + 1], c[i + 2]>>))
    ELSE pairs

\* A variant of the pairing loop that ends one candidate early.
RECURSIVE PairLoopOffByOne(_, _, _, _)
PairLoopOffByOne(c, num, i, pairs) ==
    IF i < Min(num * 2, Len(c) - 2)
    THEN PairLoopOffByOne(c, num, i + 2, Append(pairs, <<c[i + 1], c[i + 2]>>))
    ELSE pairs

\* The pairing loop: i is JavaScript's index, c[i] there is c[i + 1] here.
RECURSIVE PairLoop(_, _, _, _)
PairLoop(c, num, i, pairs) ==
    IF i < Min(num * 2, Len(c) - 1)
    THEN PairLoop(c, num, i + 2, Append(pairs, <<c[i + 1], c[i + 2]>>))
    ELSE pairs

\* A variant of pairs that asks for one record only.
PairsActionAllowsOne(path, num) ==
    LET args == [num |-> num]
        values == readValues(path)
    IN  \/ BadFile("pairs", path, args)
        \/ /\ EndsWithValuesCsv(path)
           /\ Len(values) < 1
           /\ last' = Ran("pairs", path, args, 1,
                          <<"Error: Need at least 2 values for pairs.">>, NoLocals)
           /\ UNCHANGED <<fs, applied, clock>>
        \/ /\ EndsWithValuesCsv(path)
           /\ Len(values) >= 1
           /\ \E sorted \in {SortByCount(values, Len(values))} :
              \E candidates \in {Candidates(values, sorted, num)} :
              \E js \in ShuffleChoices(Len(candidates)) :
              \E shuffled \in {Shuffle(candidates, Len(candidates), js)} :
              \E pairs \in {PairLoop(shuffled, num, 0, <<>>)} :
                last' = Ran("pairs", path, args, 0,
                            [k \in 1..Len(pairs) |->
                                <<values[pairs[k][1]].title, values[pairs[k][2]].title>>],
                            [minCount |-> values[sorted[1]].comparisonCount,
                             candidates |-> candidates,
                             paired |-> SubSeq(shuffled, 1, 2 * Len(pairs)),
                             pairs |-> pairs])
           /\ UNCHANGED <<fs, applied, clock>>

\* A variant of pairs that saves the array it sorted.
PairsActionWritesBack(path, num) ==
    LET args == [num |-> num]
        values == readValues(path)
    IN  \/ BadFile("pairs", path, args)
        \/ /\ EndsWithValuesCsv(path)
           /\ Len(values) < 2
           /\ last' = Ran("pairs", path, args, 1,
                          <<"Error: Need at least 2 values for pairs.">>, NoLocals)
           /\ UNCHANGED <<fs, applied, clock>>
        \/ /\ EndsWithValuesCsv(path)
           /\ Len(values) >= 2
           /\ \E sorted \in {SortByCount(values, Len(values))} :
              \E candidates \in {Candidates(values, sorted, num)} :
              \E js \in ShuffleChoices(Len(candidates)) :
              \E shuffled \in {Shuffle(candidates, Len(candidates), js)} :
              \E pairs \in {PairLoop(shuffled, num, 0, <<>>)} :
                /\ last' = Ran("pairs", path, args, 0,
                               [k \in 1..Len(pairs) |->
                                   <<values[pairs[k][1]].title, values[pairs[k][2]].title>>],
                               [minCount |-> values[sorted[1]].comparisonCount,
                                candidates |-> candidates,
                                paired |-> SubSeq(shuffled, 1, 2 * Len(pairs)),
                                pairs |-> pairs])
                /\ fs' = writeValues(path, [k \in 1..Len(sorted) |-> values[sorted[k]]])
           /\ UNCHANGED <<applied, clock>>

PairsAction(path, num) ==
    LET args == [num |-> num]
        values == readValues(path)
    IN  \/ BadFile("pairs", path, args)
        \/ /\ EndsWithValuesCsv(path)
           /\ Len(values) < 2
           /\ last' = Ran("pairs", path, args, 1,
                          <<"Error: Need at least 2 values for pairs.">>, NoLocals)
           /\ UNCHANGED <<fs, applied, clock>>
        \/ /\ EndsWithValuesCsv(path)
           /\ Len(values) >= 2
           /\ \E sorted \in {SortByCount(values, Len(values))} :
              \E candidates \in {Candidates(values, sorted, num)} :
              \E js \in ShuffleChoices(Len(candidates)) :
              \E shuffled \in {Shuffle(candidates, Len(candidates), js)} :
              \E pairs \in {PairLoop(shuffled, num, 0, <<>>)} :
                last' = Ran("pairs", path, args, 0,
                            [k \in 1..Len(pairs) |->
                                <<values[pairs[k][1]].title, values[pairs[k][2]].title>>],
                            [minCount |-> values[sorted[1]].comparisonCount,
                             candidates |-> candidates,
                             paired |-> SubSeq(shuffled, 1, 2 * Len(pairs)),
                             pairs |-> pairs])
           /\ UNCHANGED <<fs, applied, clock>>

----------------------------------------------------------------------------
(* The commands that only read: interview and the views                    *)

\* String.prototype.includes
Includes(s, sub) ==
    \E i \in 1..(Len(s) - Len(sub) + 1) : SubSeq(s, i, i + Len(sub) - 1) = sub

\* A variant of the sort that puts a record in front of the earlier records
\* of its score.
RECURSIVE SortByScoreTiesReversed(_)
SortByScoreTiesReversed(values) ==
    IF values = <<>> THEN <<>>
    ELSE
        LET prev == SortByScoreTiesReversed(SubSeq(values, 1, Len(values) - 1))
            v == values[Len(values)]
        IN  SelectSeq(prev, LAMBDA r : r.score > v.score)
            \o <<v>>
            \o SelectSeq(prev, LAMBDA r : r.score <= v.score)

\* values.sort((a, b) => b.score - a.score): stable, highest score first.
RECURSIVE SortByScore(_)
SortByScore(values) ==
    IF values = <<>> THEN <<>>
    ELSE
        LET prev == SortByScore(SubSeq(values, 1, Len(values) - 1))
            v == values[Len(values)]
        IN  SelectSeq(prev, LAMBDA r : r.score >= v.score)
            \o <<v>>
            \o SelectSeq(prev, LAMBDA r : r.score < v.score)

\* values.filter(v => v.tags.includes(options.tag)) when a tag is given.
FilterByTag(values, tag) ==
    IF Truthy(tag) THEN SelectSeq(values, LAMBDA v : Includes(v.tags, tag)) ELSE values

\* values.slice(0, k)
Slice(values, k) == SubSeq(values, 1, Min(k, Len(values)))

\* values.map((v, idx) => ({rank: idx + 1, ...v})): each record printed
\* with its rank, the position in the array.
Ranked(values) == [k \in 1..Len(values) |-> [rank |-> k, value |-> values[k]]]

\* A command that printed and wrote nothing.
Printed(cmd, path, args, out) ==
    /\ last' = Ran(cmd, path, args, 0, out, NoLocals)
    /\ UNCHANGED <<fs, applied>>

\* interview <file> [--personality]: loads the records, reads the clock and
\* prints the protocol.
InterviewAction(path, personality) ==
    LET args == [personality |-> personality]
    IN  \/ BadFile("interview", path, args)
        \/ /\ EndsWithValuesCsv(path)
           /\ ReadClock
           /\ Printed("interview", path, args,
                      <<IF personality THEN "cultured" ELSE "default", clock'>>)

\* top10 <file> [--tag]
Top10Action(path, tag) ==
    LET args == [tag |-> tag]
    IN  \/ BadFile("top10", path, args)
        \/ /\ EndsWithValuesCsv(path)
           /\ ReadClock
           /\ Printed("top10", path, args,
                      Ranked(Slice(SortByScore(FilterByTag(readValues(path), tag)), 10)))

\* parseInt of a string of the digits 0 to 3.
RECURSIVE ParseInt(_)
ParseInt(s) ==
    IF s = <<>> THEN 0
    ELSE 10 * ParseInt(SubSeq(s, 1, Len(s) - 1))
         + (CASE s[Len(s)] = "0" -> 0
              [] s[Len(s)] = "1" -> 1
              [] s[Len(s)] = "2" -> 2
              [] s[Len(s)] = "3" -> 3)

\* list <file> [--limit] [--tag]
ListAction(path, limit, tag) ==
    LET args == [limit |-> limit, tag |-> tag]
        sorted == SortByScore(FilterByTag(readValues(path), tag))
    IN  \/ BadFile("list", path, args)
        \/ /\ EndsWithValuesCsv(path)
           /\ ReadClock
           /\ Printed("list", path, args,
                      Ranked(IF Truthy(limit) THEN Slice(sorted, ParseInt(limit))
                             ELSE sorted))

\* hierarchy <file>
HierarchyAction(path) ==
    \/ BadFile("hierarchy", path, NoLocals)
    \/ /\ EndsWithValuesCsv(path)
       /\ ReadClock
       /\ Printed("hierarchy", path, NoLocals, Ranked(SortByScore(readValues(path))))

\* The issues validate finds in the first k rows: a title seen before, a
\* title of fewer than three words.
RECURSIVE Issues(_, _)
Issues(values, k) ==
    IF k = 0 THEN <<>>
    ELSE
        LET t == values[k].title
        IN  Issues(values, k - 1)
            \o (IF \E j \in 1..(k - 1) : values[j].title = t
                THEN <<<<"Duplicate title", t>>>> ELSE <<>>)
            \o (IF Len(Split(t, Space)) < 3
                THEN <<<<"may be too broad", t>>>> ELSE <<>>)

\* validate <file>: it reads no clock.
ValidateAction(path) ==
    LET issues == Issues(readValues(path), Len(readValues(path)))
    IN  \/ BadFile("validate", path, NoLocals)
        \/ /\ EndsWithValuesCsv(path)
           /\ Printed("validate", path, NoLocals,
                      IF issues = <<>> THEN <<"is valid.">> ELSE <<"Issues found:">> \o issues)
           /\ UNCHANGED clock

\* values.reduce((sum, v) => sum + v.comparisonCount, 0)
RECURSIVE TotalComparisons(_)
TotalComparisons(values) ==
    IF values = <<>> THEN 0
    ELSE values[1].comparisonCount + TotalComparisons(Tail(values))

\* stats <file>: the totals and the titles of the least-compared records.
StatsAction(path) ==
    LET values == readValues(path)
        least == SelectSeq(values, LAMBDA v :
                     \A i \in 1..Len(values) : v.comparisonCount <= values[i].comparisonCount)
    IN  \/ BadFile("stats", path, NoLocals)
        \/ /\ EndsWithValuesCsv(path)
           /\ ReadClock
           /\ Printed("stats", path, NoLocals,
                      <<Len(values), TotalComparisons(values),
                        [k \in 1..Len(least) |-> least[k].title]>>)

----------------------------------------------------------------------------
(* The program: any command, on any arguments, one after the other         *)

\* No command is running: the shell waits for the next one.
NoCommand ==
    [cmd |-> "none", path |-> <<>>, args |-> [none |-> TRUE], exit |-> 0,
     out |-> <<>>, locals |-> NoLocals, before |-> <<>>]

\* The process ends: its output has been read, its locals are gone.
Exit ==
    /\ last # NoCommand
    /\ last' = NoCommand
    /\ UNCHANGED <<fs, clock, applied>>

Init ==
    /\ fs = [p \in Paths |-> NoFile]
    /\ clock = 0
    /\ last = NoCommand
    /\ applied = [p \in Paths |-> <<>>]

\* Ids given to edit, rationale and remove: those in the file, and one not.
IdInputs(path) == IdsOf(readValues(path)) \cup {UnknownId}

\* One command at a time: the next starts when the last has ended.
Idle == last = NoCommand

\* pairs has printed its pairs.
PairsReturned == last.cmd = "pairs" /\ last.exit = 0

InitCmd == Idle /\ \E path \in Paths : InitAction(path)

AddCmd ==
    /\ Idle
    /\ \E path \in Paths, title \in AddTitles, tags \in TagInputs :
           AddAction(path, title, tags, Undefined)

EditCmd ==
    /\ Idle
    /\ \E path \in Paths : \E id \in IdInputs(path), o \in EditInputs :
           EditAction(path, id, o.title, o.tags, o.desc)

RationaleCmd ==
    /\ Idle
    /\ \E path \in Paths : \E id \in IdInputs(path), update \in DescInputs :
           RationaleAction(path, id, update)

RemoveCmd ==
    /\ Idle
    /\ \E path \in Paths : \E id \in IdInputs(path) : RemoveAction(path, id)

PairsCmd ==
    /\ Idle
    /\ \E path \in Paths, num \in 1..MaxNum : PairsAction(path, num)

UpdateScoresCmd ==
    /\ Idle
    /\ \E path \in Paths, text \in ShortResponses : UpdateScoresAction(path, text)

InterviewCmd ==
    /\ Idle
    /\ \E path \in Paths, personality \in BOOLEAN : InterviewAction(path, personality)

Top10Cmd == Idle /\ \E path \in Paths, tag \in TagInputs : Top10Action(path, tag)

\* --limit absent or 1.
ListCmd ==
    /\ Idle
    /\ \E path \in Paths, limit \in {Undefined, <<"1">>}, tag \in TagInputs :
           ListAction(path, limit, tag)

HierarchyCmd == Idle /\ \E path \in Paths : HierarchyAction(path)

ValidateCmd == Idle /\ \E path \in Paths : ValidateAction(path)

StatsCmd == Idle /\ \E path \in Paths : StatsAction(path)

Next ==
    \/ InitCmd
    \/ AddCmd
    \/ EditCmd
    \/ RationaleCmd
    \/ RemoveCmd
    \/ PairsCmd
    \/ UpdateScoresCmd
    \/ InterviewCmd
    \/ Top10Cmd
    \/ ListCmd
    \/ HierarchyCmd
    \/ ValidateCmd
    \/ StatsCmd
    \/ Exit

Spec == Init /\ [][Next]_vars

----------------------------------------------------------------------------
(* Files written before the behaviour starts                               *)
(*                                                                         *)
(* SpecPairs and SpecScores start from a file the program left behind. Any *)
(* row counts are possible in such a file: a row's count is raised by      *)
(* outcomes against rows that were removed afterwards.                     *)

Letters == <<"A", "B", "C", "D", "E", "F">>

\* A comparisonCount far above the one from which pairs uses every record.
FarCount == CoveredCount + MaxGap

\* Ticks before tick 0 in which the rows of such a file were written.
Past == MaxSelRecords + MaxRecords + FarCount

\* The i-th row of such a file: added at tick i - Past, it then won each of
\* its c comparisons, one per tick.
OldRow(i, title, c) ==
    [id |-> generateId(title, i - Past),
     title |-> title,
     score |-> InitialScore + Delta * c,
     comparisonCount |-> c,
     tags |-> <<>>,
     createdAt |-> i - Past,
     updatedAt |-> i + c - Past,
     rationale |-> <<>>]

OldFile(n, titles, counts) ==
    [exists |-> TRUE, rows |-> [i \in 1..n |-> OldRow(i, titles[i], counts[i])]]

\* The hierarchy file is the given one, or missing; no other file exists.
StartsFrom(file, counts) ==
    /\ last = NoCommand
    /\ fs = [p \in Paths |-> IF p = GoodPath THEN file ELSE NoFile]
    /\ applied = [p \in Paths |-> IF p = GoodPath THEN counts ELSE <<>>]

----------------------------------------------------------------------------
(* The pair selector on its own: pairs run on any file of up to            *)
(* MaxSelRecords rows of distinct titles, with any counts up to            *)
(* CoveredCount and the far one.                                           *)

SelCounts == (0..CoveredCount) \cup {FarCount}

InitPairs ==
    /\ clock = 0
    /\ \/ StartsFrom(NoFile, <<>>)
       \/ \E n \in 0..MaxSelRecords : \E counts \in [1..n -> SelCounts] :
             StartsFrom(OldFile(n, [i \in 1..n |-> <<Letters[i]>>], counts), counts)

NextPairs == PairsCmd \/ Exit

SpecPairs == InitPairs /\ [][NextPairs]_vars

----------------------------------------------------------------------------
(* update-scores on its own: one batch of up to MaxBatch tokens applied to *)
(* any file of up to MaxScoreRecords rows, titles repeated or not. The     *)
(* batch takes the last reading of the clock.                              *)

\* The comparisonCounts of n rows: none ever compared, or every other one
\* compared once.
OldCounts(n) == {[i \in 1..n |-> 0], [i \in 1..n |-> i % 2]}

\* Titles of n rows the first of which was added with a blank in front:
\* " A", then A, then B.
UntrimmedTitles(n) ==
    [i \in 1..n |-> IF i = 1 THEN <<Space>> \o TitleA
                    ELSE IF i = 2 THEN TitleA ELSE TitleB]

InitScores ==
    /\ clock = MaxTime - 1
    /\ \/ StartsFrom(NoFile, <<>>)
       \/ \E n \in 0..MaxScoreRecords :
          \E titles \in [1..n -> AddTitles] \cup {UntrimmedTitles(n)},
             counts \in OldCounts(n) :
             StartsFrom(OldFile(n, titles, counts), counts)

ScoresCmd ==
    /\ Idle
    /\ \E text \in ResponseInputs : UpdateScoresAction(GoodPath, text)

NextScores == ScoresCmd \/ Exit

SpecScores == InitScores /\ [][NextScores]_vars

----------------------------------------------------------------------------
(* Interview rounds: the caller runs pairs, answers every pair it was      *)
(* given with one outcome in one update-scores batch, and starts over, on  *)
(* a file of 2 to MaxRoundRecords rows of distinct titles.                 *)
(*                                                                         *)
(* Of what update-scores writes, pairs reads the comparisonCount only, and *)
(* tells counts apart only below CoveredCount, where they decide the       *)
(* cohort. The rounds therefore keep the counts up to CoveredCount and     *)
(* leave the ratings, the updatedAt stamps and the clock as they were, so  *)
(* that a caller who never stops is a cycle of finitely many states.       *)

InitRounds ==
    /\ clock = 0
    /\ \E n \in 2..MaxRoundRecords : \E counts \in [1..n -> 0..CoveredCount] :
          StartsFrom(OldFile(n, [i \in 1..n |-> <<Letters[i]>>], counts), counts)

\* What the caller asks for: fewer pairs than the records can fill, and more.
RoundNums == {1, 2}

\* The caller asks for num pairs.
AskCmd == Idle /\ \E num \in RoundNums : PairsAction(GoodPath, num)

\* One outcome for each pair printed, the winner as the caller decides:
\* picks[k] is the side of the k-th pair that won.
Answers(printed, picks) ==
    Join([k \in 1..Len(printed) |->
             Outcome(printed[k][picks[k]], printed[k][3 - picks[k]])], ",")

\* A variant that counts a comparison for the first record of a pair only.
NamedFirstOnly(printed) == {printed[k][1] : k \in 1..Len(printed)}

\* The titles the answers name: both titles of each pair printed.
Named(printed) == UNION {{printed[k][1], printed[k][2]} : k \in 1..Len(printed)}

\* The rows after update-scores has applied the answers, as the rounds keep
\* them: the titles are distinct and each is named in at most one outcome,
\* so each named row has been counted once more, up to CoveredCount.
Answered(values, printed) ==
    [i \in 1..Len(values) |->
        IF values[i].title \in Named(printed)
        THEN [values[i] EXCEPT !.comparisonCount = Min(@ + 1, CoveredCount)]
        ELSE values[i]]

\* The caller answers the pairs it was given in one update-scores batch. The
\* batch names titles pairs printed, two different records each: it passes
\* both checks of every token and is written back.
AnswerCmd ==
    /\ PairsReturned
    /\ \E picks \in [1..Len(last.out) -> {1, 2}] :
       \E text \in {Answers(last.out, picks)} :
       \E rows \in {Answered(readValues(GoodPath), last.out)} :
          /\ fs' = writeValues(GoodPath, rows)
          /\ applied' = [applied EXCEPT
                            ![GoodPath] = [i \in 1..Len(rows) |-> rows[i].comparisonCount]]
          /\ last' = Ran("update-scores", GoodPath, [responses |-> text], 0,
                         <<"Updated scores", Len(last.out)>>, NoLocals)
          /\ UNCHANGED clock

\* The round ends when the answers are saved.
RoundEnd == last.cmd = "update-scores" /\ Exit

NextRounds == AskCmd \/ AnswerCmd \/ RoundEnd

\* The caller goes on: it asks, it answers, it starts the next round.
SpecRounds ==
    /\ InitRounds
    /\ [][NextRounds]_vars
    /\ WF_vars(AskCmd)
    /\ WF_vars(AnswerCmd)
    /\ WF_vars(RoundEnd)

----------------------------------------------------------------------------
(* Rounds from even coverage: a file of 2 to MaxSelRecords records of      *)
(* distinct titles that all have one comparisonCount below CoveredCount.   *)
(* Each round the caller runs pairs for a number of pairs the records can  *)
(* fill and answers every pair with one outcome in one update-scores       *)
(* batch; the rounds are followed while the least count is below           *)
(* CoveredCount.                                                           *)

InitBalance ==
    /\ clock = 0
    /\ \E n \in 2..MaxSelRecords, c \in 0..(CoveredCount - 1) :
          StartsFrom(OldFile(n, [i \in 1..n |-> <<Letters[i]>>], [i \in 1..n |-> c]),
                     [i \in 1..n |-> c])

\* The least comparisonCount of the hierarchy file is below CoveredCount.
Uncovered ==
    \E i \in 1..Len(readValues(GoodPath)) :
        readValues(GoodPath)[i].comparisonCount < CoveredCount

\* The caller asks for num pairs, 2 num no more than the records.
BalanceAskCmd ==
    /\ Idle
    /\ Uncovered
    /\ \E num \in 1..MaxNum :
          /\ 2 * num <= Len(readValues(GoodPath))
          /\ PairsAction(GoodPath, num)

\* The caller answers the pairs it was given in one update-scores batch.
BalanceAnswerCmd ==
    /\ PairsReturned
    /\ \E picks \in [1..Len(last.out) -> {1, 2}] :
          UpdateScoresAction(GoodPath, Answers(last.out, picks))

NextBalance == BalanceAskCmd \/ BalanceAnswerCmd \/ RoundEnd

SpecBalance == InitBalance /\ [][NextBalance]_vars

----------------------------------------------------------------------------
(* Two invocations at once: two processes each run one mutating command,   *)
(* add or update-scores, on the hierarchy file. A process loads the file   *)
(* into its own array (readValues), reads the clock, computes on the array *)
(* and saves it (writeValues); between the load of one and its save the    *)
(* other may load and save. Here last holds the running command of each    *)
(* process.                                                                *)

Procs == {1, 2}

\* The --responses texts of the two: outcomes either way, two in a batch,
\* and one naming a title of no record.
ConcResponses ==
    {Outcome(TitleA, TitleB), Outcome(TitleB, TitleA),
     Join(<<Outcome(TitleA, TitleB), Outcome(TitleA, TitleB)>>, ","),
     Outcome(TitleA, TitleZ)}

InitConcurrent ==
    /\ clock = 0
    /\ last = [p \in Procs |-> NoCommand]
    /\ \E n \in 2..MaxScoreRecords : \E counts \in OldCounts(n) :
          /\ fs = [q \in Paths |->
                     IF q = GoodPath
                     THEN OldFile(n, [i \in 1..n |-> <<Letters[i]>>], counts)
                     ELSE NoFile]
          /\ applied = [q \in Paths |-> IF q = GoodPath THEN counts ELSE <<>>]

\* The processes that have saved.
Savers == {q \in Procs : last[q].cmd # "none" /\ last[q].pc = "saved"}

\* Process p starts the command: the path passes validateFile, the file is
\* loaded, the clock is read. hist is the history of the rows loaded, after
\* the processes that had saved before the load.
Load(p, cmd, args) ==
    /\ last[p].cmd = "none"
    /\ ReadClock
    /\ last' = [last EXCEPT ![p] =
                  [cmd |-> cmd, path |-> GoodPath, args |-> args, pc |-> "loaded",
                   values |-> readValues(GoodPath), now |-> clock',
                   hist |-> applied[GoodPath], after |-> Savers, over |-> {}]]
    /\ UNCHANGED <<fs, applied>>

\* What the command makes of the array it loaded: update-scores applies the
\* batch, add pushes the new record.
Computed(inv) ==
    IF inv.cmd = "update-scores"
    THEN ApplyResponses(inv.values, Split(inv.args.responses, ","), 1, inv.now)
    ELSE [exit |-> 0, err |-> <<>>,
          values |-> Append(inv.values,
                            NewValue(inv.args.title, inv.args.tags, inv.args.desc, inv.now))]

\* A variant of the save that writes, for each record the command did not
\* change, the record the file holds now.
WrittenMerged(inv, current) ==
    LET values == Computed(inv).values
    IN  [i \in 1..Len(values) |->
            IF i <= Len(inv.values) /\ i <= Len(current) /\ values[i] = inv.values[i]
            THEN current[i]
            ELSE values[i]]

\* writeValues(filePath, values): the rows written are the command's array,
\* whatever the file holds now.
Written(inv, current) == Computed(inv).values

\* Process p ends its command: a batch that failed exits without a write,
\* otherwise the array is saved.
Save(p) ==
    /\ last[p].cmd # "none"
    /\ last[p].pc = "loaded"
    /\ UNCHANGED clock
    /\ \E res \in {Computed(last[p])} :
          \/ /\ res.exit = 1
             /\ last' = [last EXCEPT ![p].pc = "failed"]
             /\ UNCHANGED <<fs, applied>>
          \/ /\ res.exit = 0
             /\ fs' = writeValues(GoodPath, Written(last[p], readValues(GoodPath)))
             /\ applied' = [applied EXCEPT ![GoodPath] =
                               IF last[p].cmd = "update-scores"
                               THEN CountOutcomes(last[p].hist, last[p].values,
                                                  Split(last[p].args.responses, ","), 1)
                               ELSE Append(last[p].hist, 0)]
             /\ last' = [last EXCEPT ![p].pc = "saved", ![p].over = Savers]

ConcScoresCmd ==
    \E p \in Procs, text \in ConcResponses :
        Load(p, "update-scores", [responses |-> text])

ConcAddCmd ==
    \E p \in Procs, title \in AddTitles :
        Load(p, "add", [title |-> title, tags |-> Undefined, desc |-> Undefined])

ConcSave == \E p \in Procs : Save(p)

NextConcurrent == ConcScoresCmd \/ ConcAddCmd \/ ConcSave

SpecConcurrent == InitConcurrent /\ [][NextConcurrent]_vars

----------------------------------------------------------------------------
(* The views on their own: top10, list and hierarchy run on any file of up *)
(* to MaxViewRecords rows of distinct ids, more than top10 shows, whose    *)
(* ratings repeat and whose tags hold the label t, hold it inside another  *)
(* label, or do not hold it.                                               *)

\* A row added at tick i - Past that then won w comparisons and lost l.
RatedRow(i, title, w, l, tags) ==
    [id |-> generateId(title, i - Past),
     title |-> title,
     score |-> InitialScore + Delta * w - Delta * l,
     comparisonCount |-> w + l,
     tags |-> tags,
     createdAt |-> i - Past,
     updatedAt |-> i + w + l - Past,
     rationale |-> <<>>]

\* The tags of the rows, in turn: none, the label t, the label tu, the
\* labels u and t, the label ut.
ViewTags ==
    <<<<>>, <<"t">>, <<"t", "u">>, <<"u", "|", "t">>, <<"u", "t">>>>

\* The k-th file of n rows: the i-th row has won (i * k) % 3 comparisons and
\* lost i % 2 of them when k is 2, so that with k = 0 all ratings are equal
\* and otherwise they rise and fall along the file and repeat.
ViewFile(n, k) ==
    [exists |-> TRUE,
     rows |-> [i \in 1..n |->
                 RatedRow(i, <<Letters[(i % 6) + 1], Letters[((i \div 6) % 6) + 1]>>,
                          (i * k) % 3, IF k = 2 THEN i % 2 ELSE 0,
                          ViewTags[(i % 5) + 1])]]

InitViews ==
    /\ clock = 0
    /\ \E n \in 0..MaxViewRecords, k \in 0..2 :
          LET file == ViewFile(n, k)
          IN  StartsFrom(file, [i \in 1..n |-> file.rows[i].comparisonCount])

\* --limit absent, 1 or 3.
ViewListCmd ==
    /\ Idle
    /\ \E path \in Paths, limit \in {Undefined, <<"1">>, <<"3">>}, tag \in TagInputs :
           ListAction(path, limit, tag)

NextViews == Top10Cmd \/ ViewListCmd \/ HierarchyCmd \/ Exit

SpecViews == InitViews /\ [][NextViews]_vars

----------------------------------------------------------------------------
(* A store that only grows: add and update-scores from no file at all,     *)
(* nothing is ever removed.                                                *)

NextGrow == AddCmd \/ UpdateScoresCmd \/ Exit

SpecGrow == Init /\ [][NextGrow]_vars

----------------------------------------------------------------------------
(* Comparisons and their tally: update-scores and stats on a file of up to *)
(* MaxScoreRecords records of distinct titles that were never compared.    *)
(* The outcomes given are between two different titles, so every outcome   *)
(* that is persisted names two records of the file, and no record leaves.  *)

InitTally ==
    /\ clock = 0
    /\ \E n \in 0..MaxScoreRecords :
          StartsFrom(OldFile(n, [i \in 1..n |-> <<Letters[i]>>], [i \in 1..n |-> 0]),
                     [i \in 1..n |-> 0])

\* Outcomes between two different titles among the first MaxScoreRecords.
TallyTokens ==
    {Outcome(<<Letters[ab[1]]>>, <<Letters[ab[2]]>>) :
        ab \in {x \in (1..MaxScoreRecords) \X (1..MaxScoreRecords) : x[1] # x[2]}}

TallyScoresCmd ==
    /\ Idle
    /\ \E b \in SeqsUpTo(TallyTokens, 2) \ {<<>>} :
           UpdateScoresAction(GoodPath, Join(b, ","))

TallyStatsCmd == Idle /\ StatsAction(GoodPath)

NextTally == TallyScoresCmd \/ TallyStatsCmd \/ Exit

SpecTally == InitTally /\ [][NextTally]_vars

----------------------------------------------------------------------------
(* Properties                                                              *)
(*                                                                         *)
(* A state in which a command has run holds the files as they were before  *)
(* it (last.before) and as it left them (fs).                              *)

\* The rows of the command's file as they were before the command ran.
BeforeRows ==
    IF last.before[last.path].exists THEN last.before[last.path].rows ELSE <<>>

TitlesOf(values) == {values[i].title : i \in 1..Len(values)}

\* Some token of the text has a winner side or a loser side that, trimmed,
\* is the title of no row.
NamesUnknownTitle(values, text) ==
    LET toks == Split(text, ",")
    IN  \E k \in 1..Len(toks) :
            LET parts == Split(toks[k], ">")
            IN  /\ Len(parts) >= 2
                /\ \E side \in {parts[1], parts[2]} : Trim(side) \notin TitlesOf(values)

\* C1: an update-scores batch in which some outcome, wherever it stands,
\* names a title of no record fails, and every file is as it was before the
\* command: nothing the earlier outcomes of the batch did is persisted.
UnknownTitleAllOrNothing ==
    (/\ last.cmd = "update-scores"
     /\ Truthy(last.args.responses)
     /\ NamesUnknownTitle(BeforeRows, last.args.responses))
    => (last.exit = 1 /\ fs = last.before)

\* A batch of three whose middle outcome names the unknown title Z, after a
\* first outcome that was applied in memory, has failed.
UnknownTitleInTheMiddle ==
    /\ last.cmd = "update-scores"
    /\ last.args.responses =
          Join(<<Outcome(TitleA, TitleB), Outcome(TitleA, TitleZ),
                 Outcome(TitleB, TitleA)>>, ",")
    /\ {TitleA, TitleB} \subseteq TitlesOf(BeforeRows)
    /\ last.exit = 1
    /\ last.out[1] = "Value not found"

\* C2: a batch of k = 1 or 2 copies of the outcome W>L that update-scores
\* applied has added 10 k to the rating of the record W and taken 10 k from
\* the rating of the record L, has added k to the comparisonCount of each,
\* and has set the updatedAt of both to the time the command read.
EachOutcomeAdjustsByTen ==
    \A w \in AddTitles, l \in AddTitles, k \in 1..2 :
        (/\ last.cmd = "update-scores"
         /\ last.exit = 0
         /\ last.args.responses = Join([i \in 1..k |-> Outcome(w, l)], ","))
        => LET old == BeforeRows
               new == fs[last.path].rows
           IN  \E wi, li \in 1..Len(old) :
                   /\ old[wi].title = w
                   /\ old[li].title = l
                   /\ new[wi].score = old[wi].score + 10 * k
                   /\ new[li].score = old[li].score - 10 * k
                   /\ new[wi].comparisonCount = old[wi].comparisonCount + k
                   /\ new[li].comparisonCount = old[li].comparisonCount + k
                   /\ new[wi].updatedAt = clock
                   /\ new[li].updatedAt = clock

\* C3: in every file, each record's comparisonCount is the number of
\* persisted outcomes that named the record since it was added, and is not
\* negative.
CountIsOutcomesAppearedIn ==
    \A p \in Paths : \A i \in 1..Len(fs[p].rows) :
        /\ fs[p].rows[i].comparisonCount = applied[p][i]
        /\ fs[p].rows[i].comparisonCount >= 0

\* The records of the pairs.
Members(pairs) == UNION {{pairs[k][1], pairs[k][2]} : k \in 1..Len(pairs)}

\* C4: in the pairs of one call, the two members of a pair are different
\* records and no record is a member of two pairs.
PairsDisjoint ==
    PairsReturned =>
        LET pairs == last.locals.pairs
        IN  /\ \A k \in 1..Len(pairs) : pairs[k][1] # pairs[k][2]
            /\ \A k, m \in 1..Len(pairs) :
                   k # m => {pairs[k][1], pairs[k][2]} \cap {pairs[m][1], pairs[m][2]} = {}

\* A call has returned two pairs.
TwoPairsReturned == PairsReturned /\ Len(last.locals.pairs) = 2

\* The least comparisonCount of the rows.
LeastCount(values) ==
    CHOOSE m \in {values[i].comparisonCount : i \in 1..Len(values)} :
        \A i \in 1..Len(values) : m <= values[i].comparisonCount

\* The least-compared cohort.
Cohort(values) ==
    {i \in 1..Len(values) : values[i].comparisonCount = LeastCount(values)}

\* The number of rows before row i in ascending comparisonCount order, ties
\* in store order.
Rank(values, i) ==
    Cardinality({j \in 1..Len(values) :
        \/ values[j].comparisonCount < values[i].comparisonCount
        \/ values[j].comparisonCount = values[i].comparisonCount /\ j < i})

\* The candidate pool for n pairs when the least count is below 3.
BiasedPool(values, n) ==
    IF Cardinality(Cohort(values)) >= 2 * n
    THEN Cohort(values)
    ELSE {i \in 1..Len(values) : Rank(values, i) < Min(Len(values), 2 * n)}

\* C5: when the least comparisonCount is below 3, every record of every
\* returned pair is in the pool: the least-compared cohort when it has 2n
\* members, otherwise the min(|records|, 2n) first records in ascending
\* comparisonCount order, ties in store order.
PairsFromBiasedPool ==
    (PairsReturned /\ LeastCount(BeforeRows) < 3)
    => Members(last.locals.pairs) \subseteq BiasedPool(BeforeRows, last.args.num)

\* Pairs were returned from an extended pool that a tie was cut through: of
\* two records of one count, the earlier is in the pool and the later is not.
PairsFromPoolCutThroughTie ==
    /\ PairsReturned
    /\ LeastCount(BeforeRows) < 3
    /\ Cardinality(Cohort(BeforeRows)) < 2 * last.args.num
    /\ \E i \in BiasedPool(BeforeRows, last.args.num) :
       \E j \in 1..Len(BeforeRows) :
           /\ j \notin BiasedPool(BeforeRows, last.args.num)
           /\ BeforeRows[i].comparisonCount = BeforeRows[j].comparisonCount

\* C6: one call returns min(n, floor(P / 2)) pairs, P the size of its
\* candidate pool; the k-th pair is the candidates at positions 2k - 1 and
\* 2k of the shuffled pool, and the call stops at n pairs or when fewer than
\* two candidates remain.
PairsCountFromPool ==
    PairsReturned =>
        LET pairs == last.locals.pairs
            paired == last.locals.paired
            P == Len(last.locals.candidates)
        IN  /\ Len(pairs) = Min(last.args.num, P \div 2)
            /\ Len(paired) = 2 * Len(pairs)
            /\ \A k \in 1..Len(pairs) : pairs[k] = <<paired[2 * k - 1], paired[2 * k]>>
            /\ Members(pairs) \subseteq {last.locals.candidates[k] : k \in 1..P}
            /\ Len(pairs) = last.args.num \/ P - 2 * Len(pairs) < 2

\* A call for two pairs stopped after one, with one candidate of three left.
PairingStoppedForLackOfCandidates ==
    /\ PairsReturned
    /\ last.args.num = 2
    /\ Len(last.locals.candidates) = 3
    /\ Len(last.locals.pairs) = 1

\* C7: a call on a file of at least 2n records returns n pairs, on a file
\* of fewer it returns floor(|records| / 2), whatever the comparisonCounts.
PairsCountFromRecords ==
    PairsReturned =>
        Len(last.locals.pairs) =
            IF Len(BeforeRows) >= 2 * last.args.num
            THEN last.args.num
            ELSE Len(BeforeRows) \div 2

\* Two pairs were returned although the least-compared cohort is one record.
TwoPairsFromSmallCohort ==
    /\ PairsReturned
    /\ last.args.num = 2
    /\ LeastCount(BeforeRows) < 3
    /\ Cardinality(Cohort(BeforeRows)) = 1
    /\ Len(last.locals.pairs) = 2

\* C8: when every record has a comparisonCount of at least 3, the candidate
\* pool of a call is all the records, and whichever two different records
\* and whichever n are taken, the call can return the two as one pair.
EveryRecordEligibleWhenCovered ==
    /\ (PairsReturned /\ LeastCount(BeforeRows) >= 3)
       => {last.locals.candidates[k] : k \in 1..Len(last.locals.candidates)}
             = 1..Len(BeforeRows)
    /\ (/\ Idle
        /\ Len(readValues(GoodPath)) >= 2
        /\ LeastCount(readValues(GoodPath)) >= 3)
       => \A num \in 1..MaxNum : \A a, b \in 1..Len(readValues(GoodPath)) :
              a # b =>
                  ENABLED (/\ PairsAction(GoodPath, num)
                           /\ last'.exit = 0
                           /\ \E k \in 1..Len(last'.locals.pairs) :
                                  last'.locals.pairs[k] = <<a, b>>)

\* A pair was returned whose records have the counts 3 and 3 + MaxGap.
PairAcrossFarCounts ==
    /\ PairsReturned
    /\ LeastCount(BeforeRows) >= 3
    /\ \E k \in 1..Len(last.locals.pairs) :
           /\ BeforeRows[last.locals.pairs[k][1]].comparisonCount = 3
           /\ BeforeRows[last.locals.pairs[k][2]].comparisonCount = 3 + MaxGap

\* C9: pairs on a file of fewer than two records, or on no file, fails,
\* returns no pair, and leaves every file as it was, a missing file missing.
TooFewRecordsForPairs ==
    (last.cmd = "pairs" /\ Len(BeforeRows) < 2)
    => /\ last.exit = 1
       /\ "pairs" \notin DOMAIN last.locals
       /\ last.out[1] \in {"Error: Need at least 2 values for pairs.",
                           "Error: --file must end with .values.csv"}
       /\ fs = last.before

\* pairs has failed on a hierarchy path at which there is no file.
PairsOnMissingFile ==
    /\ last.cmd = "pairs"
    /\ last.path = GoodPath
    /\ ~last.before[GoodPath].exists
    /\ last.exit = 1
    /\ ~fs[GoodPath].exists

\* C10: after pairs, whichever way it went, every file is as it was before:
\* the same records in the same order with the same fields.
PairsLeavesStore == last.cmd = "pairs" => fs = last.before

\* pairs returned pairs from an extended pool after its sort had moved a
\* record of the file in front of an earlier one.
PairsAfterReorderingSort ==
    /\ PairsReturned
    /\ LeastCount(BeforeRows) < 3
    /\ Cardinality(Cohort(BeforeRows)) < 2 * last.args.num
    /\ \E k \in 1..(Len(last.locals.candidates) - 1) :
           last.locals.candidates[k] > last.locals.candidates[k + 1]
    /\ fs[GoodPath].rows = BeforeRows

\* Every token of the text is an outcome whose two titles, trimmed, are found
\* at one and the same row.
EveryOutcomeNamesOneRecord(values, text) ==
    LET toks == Split(text, ",")
    IN  \A k \in 1..Len(toks) :
            LET parts == Split(toks[k], ">")
            IN  /\ Len(parts) >= 2
                /\ Truthy(parts[1])
                /\ Truthy(parts[2])
                /\ FindTitle(values, Trim(parts[1])) # 0
                /\ FindTitle(values, Trim(parts[1])) = FindTitle(values, Trim(parts[2]))

\* The rows have the ratings and the comparisonCounts they had before the
\* command.
RatingsAndCountsKept ==
    /\ Len(fs[last.path].rows) = Len(BeforeRows)
    /\ \A i \in 1..Len(BeforeRows) :
           /\ fs[last.path].rows[i].score = BeforeRows[i].score
           /\ fs[last.path].rows[i].comparisonCount = BeforeRows[i].comparisonCount

\* C11: update-scores applies no outcome whose two titles resolve to the
\* same record: after a batch made of such outcomes only (for example "A>A")
\* every record has the rating and the comparisonCount it had before.
SameRecordOutcomeNotApplied ==
    (/\ last.cmd = "update-scores"
     /\ Truthy(last.args.responses)
     /\ EveryOutcomeNamesOneRecord(BeforeRows, last.args.responses))
    => RatingsAndCountsKept

\* The rows that carry the title.
RowsTitled(values, t) == {i \in 1..Len(values) : values[i].title = t}

\* Some token of the text is an outcome between two different titles, one of
\* which two or more rows carry.
NamesSharedTitle(values, text) ==
    LET toks == Split(text, ",")
    IN  \E k \in 1..Len(toks) :
            LET parts == Split(toks[k], ">")
            IN  /\ Len(parts) >= 2
                /\ Truthy(parts[1])
                /\ Truthy(parts[2])
                /\ Trim(parts[1]) # Trim(parts[2])
                /\ \E side \in {parts[1], parts[2]} :
                       Cardinality(RowsTitled(values, Trim(side))) >= 2

\* Every token of the text is an outcome with two sides, each the title of
\* some row.
EveryOutcomeNamesRecords(values, text) ==
    LET toks == Split(text, ",")
    IN  \A k \in 1..Len(toks) :
            LET parts == Split(toks[k], ">")
            IN  /\ Len(parts) >= 2
                /\ Truthy(parts[1])
                /\ Truthy(parts[2])
                /\ {Trim(parts[1]), Trim(parts[2])} \subseteq TitlesOf(values)

\* C12: an update-scores batch of well-formed outcomes between titles of the
\* store, one of which names a title two or more records share, fails with
\* the error of an unknown value, and every file is as it was before the
\* command: no record is picked among the matches.
SharedTitleFailsClosed ==
    (/\ last.cmd = "update-scores"
     /\ Truthy(last.args.responses)
     /\ EveryOutcomeNamesRecords(BeforeRows, last.args.responses)
     /\ NamesSharedTitle(BeforeRows, last.args.responses))
    => (/\ last.exit = 1
        /\ last.out[1] = "Value not found"
        /\ fs = last.before)

\* The token has no '>' separator, or nothing before it, or nothing after it.
Malformed(tok) ==
    LET parts == Split(tok, ">")
    IN  Len(parts) < 2 \/ parts[1] = <<>> \/ parts[2] = <<>>

\* The k-th token is malformed and the tokens before it are outcomes between
\* titles of rows.
MalformedAfterValid(values, toks, k) ==
    /\ Malformed(toks[k])
    /\ \A m \in 1..(k - 1) :
           /\ ~Malformed(toks[m])
           /\ LET parts == Split(toks[m], ">")
              IN  {Trim(parts[1]), Trim(parts[2])} \subseteq TitlesOf(values)

\* C13: update-scores on a hierarchy path, given a batch in which a token
\* without a separator or with an empty side follows only valid outcomes,
\* exits with the invalid-format error for that token and writes no file;
\* given no --responses text or an empty one it exits with an error without
\* writing a file and before it reads the clock, which it reads after the
\* store.
MalformedOutcomeRejected ==
    [][(/\ last.cmd = "none"
        /\ last'.cmd = "update-scores"
        /\ EndsWithValuesCsv(last'.path))
       => LET text == last'.args.responses
              toks == Split(text, ",")
          IN  /\ ~Truthy(text)
                 => /\ last'.exit = 1
                    /\ last'.out = <<"Error: --responses is required.">>
                    /\ fs' = fs
                    /\ clock' = clock
              /\ \A k \in 1..Len(toks) :
                     (Truthy(text) /\ MalformedAfterValid(readValues(last'.path), toks, k))
                     => /\ last'.exit = 1
                        /\ last'.out = <<"Invalid response format", toks[k]>>
                        /\ fs' = fs]_vars

\* A batch whose second token has no separator, after an outcome between two
\* records that was applied in memory, has been rejected.
MalformedAfterAppliedOutcome ==
    /\ last.cmd = "update-scores"
    /\ last.args.responses = Join(<<Outcome(TitleA, TitleB), TitleA>>, ",")
    /\ {TitleA, TitleB} \subseteq TitlesOf(BeforeRows)
    /\ last.exit = 1
    /\ last.out[1] = "Invalid response format"

\* The rows all have one comparisonCount, below CoveredCount.
UniformUncovered(values) ==
    /\ LeastCount(values) < CoveredCount
    /\ \A i \in 1..Len(values) : values[i].comparisonCount = LeastCount(values)

\* C14: pairs --num n on a hierarchy file of exactly 2n records that all have
\* the same comparisonCount below 3 returns exactly n pairs, and every
\* record of the file is a member of exactly one of them.
ExactPoolFullyCovered ==
    (/\ last.cmd = "pairs"
     /\ EndsWithValuesCsv(last.path)
     /\ Len(BeforeRows) = 2 * last.args.num
     /\ UniformUncovered(BeforeRows))
    => /\ last.exit = 0
       /\ Len(last.locals.pairs) = last.args.num
       /\ \A r \in 1..Len(BeforeRows) :
              Cardinality({<<k, s>> \in (1..Len(last.locals.pairs)) \X {1, 2} :
                              last.locals.pairs[k][s] = r}) = 1

\* pairs --num 2 on four records of one count below 3 returned two pairs.
TwoPairsCoverFour ==
    /\ PairsReturned
    /\ last.args.num = 2
    /\ Len(BeforeRows) = 4
    /\ UniformUncovered(BeforeRows)
    /\ Len(last.locals.pairs) = 2

\* C15: pairs on a hierarchy file of exactly two records returns exactly one
\* pair, made of the two records, whatever --num is and whatever the two
\* comparisonCounts are.
TwoRecordsOnePair ==
    (/\ last.cmd = "pairs"
     /\ EndsWithValuesCsv(last.path)
     /\ Len(BeforeRows) = 2)
    => /\ last.exit = 0
       /\ Len(last.locals.pairs) = 1
       /\ {last.locals.pairs[1][1], last.locals.pairs[1][2]} = {1, 2}

\* pairs --num 2 returned the one pair of two records whose counts differ,
\* one below 3 and one above.
OnePairOfTwoUnequal ==
    /\ PairsReturned
    /\ last.args.num = 2
    /\ Len(BeforeRows) = 2
    /\ BeforeRows[1].comparisonCount > CoveredCount
    /\ BeforeRows[2].comparisonCount < CoveredCount
    /\ Len(last.locals.pairs) = 1

\* Every record of the hierarchy file has comparisonCount 3 or more.
AllCovered ==
    \A i \in 1..Len(fs[GoodPath].rows) :
        fs[GoodPath].rows[i].comparisonCount >= CoveredCount

OddRecordsShortOfNum ==
    /\ last.cmd = "pairs"
    /\ Len(BeforeRows) % 2 = 1
    /\ Len(BeforeRows) < 2 * last.args.num

RowsBefore(p) == IF last.before[p].exists THEN last.before[p].rows ELSE <<>>

\* The rating and the comparisonCount of each row, in store order.
Ratings(values) ==
    [i \in 1..Len(values) |-> <<values[i].score, values[i].comparisonCount>>]

\* The commands that keep records and are not the rating updater; init
\* keeps none, it replaces the file by an empty one.
KeepingCommands ==
    {"add", "edit", "rationale", "remove", "pairs", "interview",
     "top10", "list", "hierarchy", "validate", "stats"}

\* C17: after add, edit, rationale, remove, pairs, interview, top10, list,
\* hierarchy, validate or stats, every record that is still in a file has
\* the rating and the comparisonCount it had before: add leaves the rows it
\* found, remove all rows but the one it took out, every other command all
\* rows.
OnlyUpdaterChangesRatings ==
    (last.cmd \in KeepingCommands)
    => \A p \in Paths :
           LET old == Ratings(RowsBefore(p))
               new == Ratings(fs[p].rows)
           IN  IF last.cmd = "add" /\ last.exit = 0 /\ p = last.path
               THEN Len(new) >= Len(old) /\ SubSeq(new, 1, Len(old)) = old
               ELSE IF last.cmd = "remove" /\ last.exit = 0 /\ p = last.path
               THEN \E i \in 1..Len(old) : new = Splice(old, i)
               ELSE new = old

\* edit has changed a record that update-scores had counted comparisons for.
EditedRatedRecord ==
    /\ last.cmd = "edit"
    /\ last.exit = 0
    /\ \E i \in 1..Len(BeforeRows) :
           /\ BeforeRows[i].id = last.args.id
           /\ BeforeRows[i].comparisonCount > 0
           /\ fs[last.path].rows[i] # BeforeRows[i]

\* C19: add on a hierarchy path succeeds, whether the file exists or not and
\* whether a record carries the title already or not, and leaves the file
\* with the rows it found, unchanged and in their order, followed by exactly
\* one new row of the given title with rating 1500, comparisonCount 0 and
\* createdAt equal to updatedAt.
AddAppendsOneRecord ==
    (last.cmd = "add" /\ EndsWithValuesCsv(last.path))
    => LET old == BeforeRows
           new == fs[last.path].rows
       IN  /\ last.exit = 0
           /\ fs[last.path].exists
           /\ Len(new) = Len(old) + 1
           /\ SubSeq(new, 1, Len(old)) = old
           /\ new[Len(new)].title = last.args.title
           /\ new[Len(new)].score = 1500
           /\ new[Len(new)].comparisonCount = 0
           /\ new[Len(new)].createdAt = new[Len(new)].updatedAt

\* add has appended a record whose title an earlier record carries, after
\* update-scores had moved that record's rating.
AddedTitleAgain ==
    /\ last.cmd = "add"
    /\ last.exit = 0
    /\ \E i \in 1..Len(BeforeRows) :
           /\ BeforeRows[i].title = last.args.title
           /\ BeforeRows[i].comparisonCount > 0

\* The rows the tokens of the text resolve to: for each side of each token,
\* the first row that carries the trimmed title.
ResolvedRows(values, text) ==
    LET toks == Split(text, ",")
    IN  {FindTitle(values, Trim(Split(toks[k], ">")[s])) :
            k \in 1..Len(toks), s \in {1, 2}}

\* The sum of the rows' comparisonCounts.
RECURSIVE SumOfCounts(_)
SumOfCounts(values) ==
    IF values = <<>> THEN 0
    ELSE values[1].comparisonCount + SumOfCounts(Tail(values))

\* C18: after a successful update-scores the file has as many rows as
\* before, in the same order; every row has the id, title, tags, rationale
\* and createdAt it had; a row that no outcome of the batch resolves to has
\* all its fields as before; no other file has changed; the count reported
\* is the number of tokens of the batch, and each of them was applied: the
\* comparisonCounts have risen by two per token in total.
UpdateScoresFrame ==
    (last.cmd = "update-scores" /\ last.exit = 0)
    => LET old == BeforeRows
           new == fs[last.path].rows
           text == last.args.responses
       IN  /\ Len(new) = Len(old)
           /\ \A i \in 1..Len(old) :
                  /\ new[i].id = old[i].id
                  /\ new[i].title = old[i].title
                  /\ new[i].tags = old[i].tags
                  /\ new[i].rationale = old[i].rationale
                  /\ new[i].createdAt = old[i].createdAt
                  /\ i \notin ResolvedRows(old, text) => new[i] = old[i]
           /\ \A p \in Paths \ {last.path} : fs[p] = last.before[p]
           /\ last.out = <<"Updated scores", Len(Split(text, ","))>>
           /\ SumOfCounts(new) = SumOfCounts(old) + 2 * Len(Split(text, ","))

\* A batch of two outcomes has succeeded on a file of three records, one of
\* which no outcome resolves to.
TwoOutcomesBesideThirdRecord ==
    /\ last.cmd = "update-scores"
    /\ last.exit = 0
    /\ Len(BeforeRows) = 3
    /\ Len(Split(last.args.responses, ",")) = 2
    /\ Cardinality(ResolvedRows(BeforeRows, last.args.responses)) = 2

\* C20: in every state, in every file, no two records have the same id.
IdsAreUnique ==
    \A p \in Paths : \A i, j \in 1..Len(fs[p].rows) :
        i # j => fs[p].rows[i].id # fs[p].rows[j].id

\* The position of a printed record in the file before the command: its id
\* is the id of one row.
StorePos(values, v) == CHOOSE i \in 1..Len(values) : values[i].id = v.id

\* Record a stands before record b in the ranking of the file: its rating is
\* higher, or equal with a earlier in the store.
RanksBefore(values, a, b) ==
    \/ a.score > b.score
    \/ a.score = b.score /\ StorePos(values, a) < StorePos(values, b)

\* How many records the view shows of count that pass its filter.
Shown(count) ==
    IF last.cmd = "top10" THEN Min(10, count)
    ELSE IF last.cmd = "list" /\ Truthy(last.args.limit)
         THEN Min(ParseInt(last.args.limit), count)
         ELSE count

\* The tag the view was given, none for hierarchy.
TagGiven == IF last.cmd = "hierarchy" THEN Undefined ELSE last.args.tag

\* C21: list, hierarchy and top10 on a hierarchy path print records of the
\* file that pass the tag filter, each once and as it is stored, the i-th
\* with rank i; every record printed stands before the next one printed in
\* the ranking (higher rating, or the same rating and earlier in the store),
\* and before every filtered record that is not printed; top10 prints
\* min(10, count) of the count filtered records, list with no limit and
\* hierarchy print them all.
RatingDrivesOrder ==
    (last.cmd \in {"top10", "list", "hierarchy"} /\ EndsWithValuesCsv(last.path))
    => LET out == last.out
           filtered == FilterByTag(BeforeRows, TagGiven)
           printed == {out[k].value : k \in 1..Len(out)}
       IN  /\ last.exit = 0
           /\ Len(out) = Shown(Len(filtered))
           /\ \A k \in 1..Len(out) :
                  /\ out[k].rank = k
                  /\ \E i \in 1..Len(filtered) : filtered[i] = out[k].value
           /\ \A k \in 1..(Len(out) - 1) :
                  RanksBefore(BeforeRows, out[k].value, out[k + 1].value)
           /\ \A k \in 1..Len(out), i \in 1..Len(filtered) :
                  filtered[i] \notin printed
                  => RanksBefore(BeforeRows, out[k].value, filtered[i])

\* top10 with no tag has printed ten of eleven records, two of them of one
\* rating, and has left out a record of the rating of the tenth.
TopTenOfEleven ==
    /\ last.cmd = "top10"
    /\ ~Truthy(last.args.tag)
    /\ Len(BeforeRows) = 11
    /\ Len(last.out) = 10
    /\ last.out[1].value.score = last.out[2].value.score
    /\ \E i \in 1..11 :
           /\ BeforeRows[i].score = last.out[10].value.score
           /\ \A k \in 1..10 : last.out[k].value # BeforeRows[i]

\* The labels of a pipe-delimited tags field.
Labels(tags) == {Split(tags, "|")[k] : k \in 1..Len(Split(tags, "|"))}

\* The rows that carry the label.
Labelled(values, tag) == SelectSeq(values, LAMBDA v : tag \in Labels(v.tags))

\* C22: top10 --tag T and list --tag T on a hierarchy path print only
\* records one of whose pipe-delimited labels is T, and as many of them as
\* the cut allows: min(10, count) for top10, min(limit, count) or all for
\* list, count the number of records that carry the label.
TagFilterByLabel ==
    (/\ last.cmd \in {"top10", "list"}
     /\ EndsWithValuesCsv(last.path)
     /\ Truthy(last.args.tag))
    => /\ \A k \in 1..Len(last.out) : last.args.tag \in Labels(last.out[k].value.tags)
       /\ Len(last.out) = Shown(Len(Labelled(BeforeRows, last.args.tag)))

RECURSIVE SumSeq(_)
SumSeq(a) == IF a = <<>> THEN 0 ELSE a[1] + SumSeq(Tail(a))

\* The comparisons performed on the records of the file at p when every
\* persisted outcome names two of them: each outcome is in the history of
\* both its records.
ComparisonsPerformed(p) == SumSeq(applied[p]) \div 2

\* C23: stats reports as totalComparisons the number of comparisons
\* performed, the number of winner/loser outcomes that update-scores has
\* applied to the records of the store.
StatsCountsComparisons ==
    (last.cmd = "stats" /\ last.exit = 0)
    => last.out[2] = ComparisonsPerformed(last.path)

\* The sum of the rows' ratings.
RECURSIVE SumOfScores(_)
SumOfScores(values) ==
    IF values = <<>> THEN 0
    ELSE values[1].score + SumOfScores(Tail(values))

\* C26: a successful update-scores leaves the sum of the ratings of the file
\* as it was, and after any sequence of add and update-scores from no file
\* the sum of the ratings of every file is 1500 times the number of its
\* records.
RatingsConserved ==
    /\ (last.cmd = "update-scores" /\ last.exit = 0)
       => SumOfScores(fs[last.path].rows) = SumOfScores(BeforeRows)
    /\ \A p \in Paths : SumOfScores(fs[p].rows) = 1500 * Len(fs[p].rows)

\* update-scores has moved the ratings of two records apart.
RatingsMovedApart ==
    /\ last.cmd = "update-scores"
    /\ last.exit = 0
    /\ \E i, j \in 1..Len(fs[last.path].rows) :
           fs[last.path].rows[i].score > 1500 /\ fs[last.path].rows[j].score < 1500

\* The commands that take a file argument.
FileCommands ==
    {"init", "add", "edit", "rationale", "remove", "interview", "pairs",
     "update-scores", "top10", "list", "hierarchy", "validate", "stats"}

InitAlwaysEmpties ==
    (last.cmd = "init" /\ EndsWithValuesCsv(last.path))
    => /\ last.exit = 0
       /\ last.out = <<"Created">>
       /\ fs[last.path] = [exists |-> TRUE, rows |-> <<>>]
       /\ \A p \in Paths \ {last.path} : fs[p] = last.before[p]

\* init has replaced a file that held a record update-scores had rated.
InitOverRatedRecords ==
    /\ last.cmd = "init"
    /\ last.exit = 0
    /\ \E i \in 1..Len(BeforeRows) : BeforeRows[i].comparisonCount > 0
    /\ fs[last.path].rows = <<>>

\* The orders in which n outcomes can be given.
Orders(n) == {f \in [1..n -> 1..n] : \A i, j \in 1..n : i # j => f[i] # f[j]}

\* The rows after the tokens from the k-th on were given one per
\* update-scores invocation, each invocation loading what the one before
\* it saved.
RECURSIVE OnePerInvocation(_, _, _, _)
OnePerInvocation(values, toks, k, now) ==
    IF k > Len(toks) THEN values
    ELSE LET res == ApplyResponses(values, <<toks[k]>>, 1, now)
         IN  OnePerInvocation(IF res.exit = 0 THEN res.values ELSE values,
                              toks, k + 1, now)

\* C27: after a batch whose outcomes all resolve, the rating and the
\* comparisonCount of every record are those the batch gives in any other
\* order of its outcomes, and those the outcomes give when they are applied
\* one per update-scores invocation, in any order.
OrderIndependent ==
    (last.cmd = "update-scores" /\ last.exit = 0)
    => LET toks == Split(last.args.responses, ",")
       IN  \A f \in Orders(Len(toks)) :
               LET reordered == [i \in 1..Len(toks) |-> toks[f[i]]]
                   batch == ApplyResponses(BeforeRows, reordered, 1, clock)
               IN  /\ batch.exit = 0
                   /\ Ratings(batch.values) = Ratings(fs[last.path].rows)
                   /\ Ratings(OnePerInvocation(BeforeRows, reordered, 1, clock))
                         = Ratings(fs[last.path].rows)

\* A batch of three outcomes, not all the same, between two records has
\* been applied.
MixedBatchApplied ==
    /\ last.cmd = "update-scores"
    /\ last.exit = 0
    /\ last.args.responses =
          Join(<<Outcome(TitleA, TitleB), Outcome(TitleB, TitleA),
                 Outcome(TitleA, TitleB)>>, ",")

\* The first row in store order whose stored title is t, 0 when none is.
FirstTitled(values, t) ==
    IF RowsTitled(values, t) = {} THEN 0
    ELSE CHOOSE i \in RowsTitled(values, t) : \A j \in RowsTitled(values, t) : i <= j

\* The k-th token's segment s, trimmed.
Segment(toks, k, s) == Trim(Split(toks[k], ">")[s])

\* Every token has a first and a second segment, neither empty.
TwoSegments(toks) ==
    \A k \in 1..Len(toks) :
        /\ Len(Split(toks[k], ">")) >= 2
        /\ Split(toks[k], ">")[1] # <<>>
        /\ Split(toks[k], ">")[2] # <<>>

\* C29: update-scores reads of each token its first two '>'-separated
\* segments only, trims each and resolves it to the first record in store
\* order whose stored title equals it exactly. When every token has two
\* non-empty segments that resolve, the batch succeeds and each record has
\* gained 10 for every token whose first segment resolves to it and lost 10
\* for every token whose second segment does, and its comparisonCount has
\* risen by one for each of these; otherwise the batch fails and every file
\* is as it was.
OutcomeParsedAndResolved ==
    (/\ last.cmd = "update-scores"
     /\ EndsWithValuesCsv(last.path)
     /\ Truthy(last.args.responses))
    => LET toks == Split(last.args.responses, ",")
           old == BeforeRows
           new == fs[last.path].rows
           Wins(i) == Cardinality({k \in 1..Len(toks) :
                          FirstTitled(old, Segment(toks, k, 1)) = i})
           Losses(i) == Cardinality({k \in 1..Len(toks) :
                            FirstTitled(old, Segment(toks, k, 2)) = i})
       IN  IF /\ TwoSegments(toks)
              /\ \A k \in 1..Len(toks), s \in {1, 2} :
                     FirstTitled(old, Segment(toks, k, s)) # 0
           THEN /\ last.exit = 0
                /\ Len(new) = Len(old)
                /\ \A i \in 1..Len(old) :
                       /\ new[i].score = old[i].score + 10 * Wins(i) - 10 * Losses(i)
                       /\ new[i].comparisonCount
                             = old[i].comparisonCount + Wins(i) + Losses(i)
           ELSE last.exit = 1 /\ fs = last.before

\* The token A>B>Z has been applied to a file whose first record is titled
\* " A" and whose second is titled A: the second has won.
LongTokenPastUntrimmedTitle ==
    /\ last.cmd = "update-scores"
    /\ last.exit = 0
    /\ last.args.responses = LongToken
    /\ Len(BeforeRows) = 3
    /\ BeforeRows[1].title = <<Space>> \o TitleA
    /\ fs[last.path].rows[1] = BeforeRows[1]
    /\ fs[last.path].rows[2].score = BeforeRows[2].score + 10

\* The greatest comparisonCount of the rows.
GreatestCount(values) ==
    CHOOSE m \in {values[i].comparisonCount : i \in 1..Len(values)} :
        \A i \in 1..Len(values) : m >= values[i].comparisonCount

\* C28: from a file of at least 2n records of distinct titles and one
\* comparisonCount, in rounds of pairs --num n answered with one outcome for
\* each returned pair, after every round that started with the least
\* comparisonCount below 3 the greatest and the least comparisonCount
\* differ by at most 1.
CoverageStaysBalanced ==
    (/\ last.cmd = "update-scores"
     /\ last.exit = 0
     /\ LeastCount(BeforeRows) < 3)
    => GreatestCount(fs[last.path].rows) - LeastCount(fs[last.path].rows) <= 1

\* A round has ended that started with a least-compared cohort too small to
\* fill its pairs, and so with records of the next count in the pool.
RoundFromExtendedPool ==
    /\ last.cmd = "update-scores"
    /\ last.exit = 0
    /\ LeastCount(BeforeRows) < 3
    /\ Cardinality(Cohort(BeforeRows)) < 2 * Len(Split(last.args.responses, ","))
    /\ GreatestCount(fs[last.path].rows) = LeastCount(fs[last.path].rows) + 1

\* Both processes have saved, and each had loaded before the other saved.
BothSavedOverlapping ==
    /\ Savers = Procs
    /\ \A p \in Procs : last[p].after = {}

\* C25: when two mutating invocations overlap, each loading the file before
\* the other saves, and both save, the file holds exactly the record list
\* the later saver made of the array it had loaded, which is the file as it
\* was before either saved: no change of the earlier saver is in it. After
\* an add saved last the records loaded are as they were, followed by the
\* new one; after an update-scores saved last there are as many records as
\* were loaded.
LastWriterWins ==
    BothSavedOverlapping
    => \E w \in Procs : \E e \in Procs \ {w} :
          /\ last[w].over = {e}
          /\ last[e].over = {}
          /\ last[w].values = last[e].values
          /\ fs[GoodPath].rows = Computed(last[w]).values
          /\ IF last[w].cmd = "add"
             THEN /\ Len(fs[GoodPath].rows) = Len(last[w].values) + 1
                  /\ SubSeq(fs[GoodPath].rows, 1, Len(last[w].values)) = last[w].values
             ELSE Len(fs[GoodPath].rows) = Len(last[w].values)

\* An update-scores and an add overlapped, the update-scores saved first
\* and the add last: the file holds the ratings as they were loaded.
AddSavedOverUpdateScores ==
    /\ BothSavedOverlapping
    /\ \E w \in Procs : \E e \in Procs \ {w} :
          /\ last[w].cmd = "add"
          /\ last[e].cmd = "update-scores"
          /\ last[w].over = {e}
          /\ Computed(last[e]).values # last[e].values

====
